---- MODULE Spec2Model ----
(***************************************************************************)
(* Code-Scanner-rs: the scan-filter-render pipeline of one project and the *)
(* orchestration that runs it over the input directory.                    *)
(*                                                                         *)
(* File names are sequences of bytes, so that lower-casing, extension      *)
(* extraction and path ordering are computed as the code computes them.    *)
(* A path is the sequence of its components relative to the project root   *)
(* (every full path of one scan shares the project path as its prefix).    *)
(***************************************************************************)
EXTENDS Integers, Sequences, FiniteSets, TLC

\* ------------------------------------------------------------------ bounds
\* Most entries the walker yields for one project.
MaxEntries == 2
\* Most entries fs::read_dir lists directly under the input directory.
MaxListing == 2
\* Most entries of a project that is scanned twice.
MaxOrderEntries == 3

\* ------------------------------------------------------- byte-string names
S_src == <<115, 114, 99>>  \* "src"
S_main_dot_go == <<109, 97, 105, 110, 46, 103, 111>>  \* "main.go"
S_node_modules == <<110, 111, 100, 101, 95, 109, 111, 100, 117, 108, 101, 115>>  \* "node_modules"
S_x_dot_js == <<120, 46, 106, 115>>  \* "x.js"
S_image_dot_png == <<105, 109, 97, 103, 101, 46, 112, 110, 103>>  \* "image.png"
S_Dockerfile == <<68, 111, 99, 107, 101, 114, 102, 105, 108, 101>>  \* "Dockerfile"
S_build == <<98, 117, 105, 108, 100>>  \* "build"
S_src_dot_txt == <<115, 114, 99, 46, 116, 120, 116>>  \* "src.txt"
S_big_dot_rs == <<98, 105, 103, 46, 114, 115>>  \* "big.rs"
S_Cargo_dot_lock == <<67, 97, 114, 103, 111, 46, 108, 111, 99, 107>>  \* "Cargo.lock"
S_cargo_dot_lock == <<99, 97, 114, 103, 111, 46, 108, 111, 99, 107>>  \* "cargo.lock"
S_denied == <<100, 101, 110, 105, 101, 100>>  \* "denied"
S_data_dot_bin == <<100, 97, 116, 97, 46, 98, 105, 110>>  \* "data.bin"
S_ghost_dot_rs == <<103, 104, 111, 115, 116, 46, 114, 115>>  \* "ghost.rs"
S_log_dot_txt == <<108, 111, 103, 46, 116, 120, 116>>  \* "log.txt"
S_gone_dot_txt == <<103, 111, 110, 101, 46, 116, 120, 116>>  \* "gone.txt"
S__dot_gitignore == <<46, 103, 105, 116, 105, 103, 110, 111, 114, 101>>  \* ".gitignore"
S_assets_dot_png == <<97, 115, 115, 101, 116, 115, 46, 112, 110, 103>>  \* "assets.png"
S_PNG == <<80, 78, 71>>  \* "PNG"
S_go == <<103, 111>>  \* "go"
S_dockerfile == <<100, 111, 99, 107, 101, 114, 102, 105, 108, 101>>  \* "dockerfile"
S_Thumbs_dot_db == <<84, 104, 117, 109, 98, 115, 46, 100, 98>>  \* "Thumbs.db"
S_notes_dot_xyz == <<110, 111, 116, 101, 115, 46, 120, 121, 122>>  \* "notes.xyz"
S_empty == <<>>  \* ""

DOT == 46
SLASH == 47

\* ------------------------------------------------------------ default rules
DefaultMaxFileSize == 1048576

\* config.rs ProjectConfig::default, code_extensions
DefaultCodeExtensions ==
    {
      <<106, 115>>,  \* "js"
      <<106, 115, 120>>,  \* "jsx"
      <<116, 115>>,  \* "ts"
      <<116, 115, 120>>,  \* "tsx"
      <<104, 116, 109, 108>>,  \* "html"
      <<99, 115, 115>>,  \* "css"
      <<115, 99, 115, 115>>,  \* "scss"
      <<118, 117, 101>>,  \* "vue"
      <<106, 115, 111, 110>>,  \* "json"
      <<112, 121>>,  \* "py"
      <<106, 97, 118, 97>>,  \* "java"
      <<107, 116>>,  \* "kt"
      <<114, 115>>,  \* "rs"
      <<103, 111>>,  \* "go"
      <<114, 98>>,  \* "rb"
      <<112, 104, 112>>,  \* "php"
      <<99, 115>>,  \* "cs"
      <<99>>,  \* "c"
      <<99, 112, 112>>,  \* "cpp"
      <<104>>,  \* "h"
      <<104, 112, 112>>,  \* "hpp"
      <<115, 119, 105, 102, 116>>,  \* "swift"
      <<100, 97, 114, 116>>,  \* "dart"
      <<109, 100>>,  \* "md"
      <<121, 97, 109, 108>>,  \* "yaml"
      <<121, 109, 108>>,  \* "yml"
      <<116, 111, 109, 108>>,  \* "toml"
      <<120, 109, 108>>,  \* "xml"
      <<115, 104>>,  \* "sh"
      <<98, 97, 115, 104>>,  \* "bash"
      <<115, 113, 108>>,  \* "sql"
      <<116, 120, 116>>,  \* "txt"
      <<100, 111, 99, 107, 101, 114, 102, 105, 108, 101>>,  \* "dockerfile"
      <<109, 97, 107, 101, 102, 105, 108, 101>> }  \* "makefile"

\* config.rs ProjectConfig::default, ignore_dirs
DefaultIgnoreDirs ==
    {
      <<110, 111, 100, 101, 95, 109, 111, 100, 117, 108, 101, 115>>,  \* "node_modules"
      <<100, 105, 115, 116>>,  \* "dist"
      <<98, 117, 105, 108, 100>>,  \* "build"
      <<116, 97, 114, 103, 101, 116>>,  \* "target"
      <<98, 105, 110>>,  \* "bin"
      <<111, 98, 106>>,  \* "obj"
      <<46, 103, 105, 116>>,  \* ".git"
      <<46, 105, 100, 101, 97>>,  \* ".idea"
      <<46, 118, 115, 99, 111, 100, 101>>,  \* ".vscode"
      <<46, 110, 101, 120, 116>>,  \* ".next"
      <<46, 110, 117, 120, 116>>,  \* ".nuxt"
      <<95, 95, 112, 121, 99, 97, 99, 104, 101, 95, 95>>,  \* "__pycache__"
      <<118, 101, 110, 118>>,  \* "venv"
      <<101, 110, 118>>,  \* "env"
      <<46, 118, 101, 110, 118>>,  \* ".venv"
      <<99, 111, 118, 101, 114, 97, 103, 101>>,  \* "coverage"
      <<112, 111, 100, 115>>,  \* "pods"
      <<100, 101, 114, 105, 118, 101, 100, 100, 97, 116, 97>> }  \* "deriveddata"

\* config.rs ProjectConfig::default, ignore_files
DefaultIgnoreFiles ==
    {
      <<46, 100, 115, 95, 115, 116, 111, 114, 101>>,  \* ".ds_store"
      <<116, 104, 117, 109, 98, 115, 46, 100, 98>>,  \* "thumbs.db"
      <<112, 97, 99, 107, 97, 103, 101, 45, 108, 111, 99, 107, 46, 106, 115, 111, 110>>,  \* "package-lock.json"
      <<121, 97, 114, 110, 46, 108, 111, 99, 107>>,  \* "yarn.lock"
      <<112, 110, 112, 109, 45, 108, 111, 99, 107, 46, 121, 97, 109, 108>>,  \* "pnpm-lock.yaml"
      <<99, 97, 114, 103, 111, 46, 108, 111, 99, 107>>,  \* "cargo.lock"
      <<103, 101, 109, 102, 105, 108, 101, 46, 108, 111, 99, 107>>,  \* "gemfile.lock"
      <<103, 111, 46, 115, 117, 109>> }  \* "go.sum"

\* config.rs ProjectConfig::default, ignore_extensions
DefaultIgnoreExtensions ==
    {
      <<112, 110, 103>>,  \* "png"
      <<106, 112, 103>>,  \* "jpg"
      <<106, 112, 101, 103>>,  \* "jpeg"
      <<103, 105, 102>>,  \* "gif"
      <<105, 99, 111>>,  \* "ico"
      <<115, 118, 103>>,  \* "svg"
      <<119, 111, 102, 102>>,  \* "woff"
      <<119, 111, 102, 102, 50>>,  \* "woff2"
      <<116, 116, 102>>,  \* "ttf"
      <<101, 111, 116>>,  \* "eot"
      <<109, 112, 51>>,  \* "mp3"
      <<109, 112, 52>>,  \* "mp4"
      <<97, 118, 105>>,  \* "avi"
      <<109, 111, 118>>,  \* "mov"
      <<122, 105, 112>>,  \* "zip"
      <<116, 97, 114>>,  \* "tar"
      <<103, 122>>,  \* "gz"
      <<55, 122>>,  \* "7z"
      <<114, 97, 114>>,  \* "rar"
      <<101, 120, 101>>,  \* "exe"
      <<100, 108, 108>>,  \* "dll"
      <<115, 111>>,  \* "so"
      <<100, 121, 108, 105, 98>>,  \* "dylib"
      <<99, 108, 97, 115, 115>>,  \* "class"
      <<106, 97, 114>>,  \* "jar"
      <<112, 121, 99>>,  \* "pyc"
      <<112, 121, 111>>,  \* "pyo"
      <<112, 121, 100>> }  \* "pyd"


\* ----------------------------------------------------------- string helpers
Max(S) == CHOOSE x \in S : \A y \in S : y <= x

\* str::to_lowercase on the ASCII range: 'A'..'Z' map to 'a'..'z'.
to_lowercase(s) ==
    [i \in 1..Len(s) |-> IF s[i] >= 65 /\ s[i] <= 90 THEN s[i] + 32 ELSE s[i]]

\* Path::extension: the part of the file name after its last '.', and none
\* (unwrap_or_default gives "") when there is no '.' or the only '.' leads.
extension(name) ==
    LET dots == {i \in 1..Len(name) : name[i] = DOT}
    IN  IF dots = {} \/ Max(dots) = 1 THEN S_empty
        ELSE SubSeq(name, Max(dots) + 1, Len(name))

\* Byte-wise lexicographic order of two byte strings (Ord for OsStr / str).
RECURSIVE BytesLess(_, _)
BytesLess(a, b) ==
    IF b = <<>> THEN FALSE
    ELSE IF a = <<>> THEN TRUE
    ELSE IF Head(a) # Head(b) THEN Head(a) < Head(b)
    ELSE BytesLess(Tail(a), Tail(b))

\* Ord for Path/PathBuf compares the components() iterators lexicographically,
\* each Normal component by its bytes.
RECURSIVE PathLessBytes(_, _)
PathLessBytes(p, q) ==
    IF q = <<>> THEN FALSE
    ELSE IF p = <<>> THEN TRUE
    ELSE IF Head(p) # Head(q) THEN BytesLess(Head(p), Head(q))
    ELSE PathLessBytes(Tail(p), Tail(q))

\* The same comparison made on the path's string form ("a/b.txt"): the order
\* a sort of the to_string_lossy strings would give.
RECURSIVE PathString(_)
PathString(p) ==
    IF p = <<>> THEN <<>>
    ELSE IF Len(p) = 1 THEN Head(p)
    ELSE Head(p) \o <<SLASH>> \o PathString(Tail(p))

PathLessAsString(p, q) == BytesLess(PathString(p), PathString(q))

\* The order valid_files.sort() uses: Ord for PathBuf.
PathLess(p, q) == PathLessBytes(p, q)

\* Vec::sort: a stable sort by PathLess (insertion into the sorted prefix).
RECURSIVE InsertSorted(_, _)
InsertSorted(sorted, p) ==
    IF sorted = <<>> THEN <<p>>
    ELSE IF PathLess(p, Head(sorted)) THEN <<p>> \o sorted
    ELSE <<Head(sorted)>> \o InsertSorted(Tail(sorted), p)

RECURSIVE SortedPaths(_)
SortedPaths(files) ==
    IF files = <<>> THEN <<>>
    ELSE InsertSorted(SortedPaths(SubSeq(files, 1, Len(files) - 1)), files[Len(files)])

\* valid_files left in traversal order.
UnsortedPaths(files) == files

sort(files) == SortedPaths(files)

\* utils.rs format_size -> humansize DECIMAL: the unit and the value in
\* hundredths of it ("50 B", "1.05 MB").
format_size(size) ==
    IF size < 1000 THEN [unit |-> "B", n |-> size]
    ELSE IF size < 1000000 THEN [unit |-> "kB", n |-> (size + 5) \div 10]
    ELSE [unit |-> "MB", n |-> (size + 5000) \div 10000]

\* ------------------------------------------------------------------- config
DefaultConfig ==
    [code_extensions   |-> DefaultCodeExtensions,
     ignore_dirs       |-> DefaultIgnoreDirs,
     ignore_files      |-> DefaultIgnoreFiles,
     ignore_extensions |-> DefaultIgnoreExtensions,
     max_file_size     |-> DefaultMaxFileSize]

\* A parsed .scanner-config.json: serde fills every missing field with its
\* default, the empty set or 0.
EmptyOverride ==
    [code_extensions |-> {}, ignore_dirs |-> {}, ignore_files |-> {},
     ignore_extensions |-> {}, max_file_size |-> 0]

OverrideFieldValues ==
    [code_extensions   |-> {{S_go}},
     ignore_dirs       |-> {{S_dockerfile}, {S_cargo_dot_lock}},
     ignore_files      |-> {{S_Dockerfile}},
     ignore_extensions |-> {{S_PNG}, {S_empty}},
     max_file_size     |-> {50}]

\* The override documents a project may hold: one field given, or all five.
OverrideDocs ==
    {EmptyOverride}
    \cup UNION {{[EmptyOverride EXCEPT ![f] = v] : v \in OverrideFieldValues[f]}
                    : f \in DOMAIN OverrideFieldValues}
    \cup {[code_extensions |-> {S_go}, ignore_dirs |-> {S_cargo_dot_lock},
           ignore_files |-> {S_Dockerfile}, ignore_extensions |-> {S_PNG},
           max_file_size |-> 50]}

\* What .scanner-config.json is for a project: no file, a file that does not
\* parse, or a document.
OverrideFiles ==
    {[state |-> "absent", doc |-> EmptyOverride],
     [state |-> "malformed", doc |-> EmptyOverride]}
    \cup {[state |-> "parsed", doc |-> d] : d \in OverrideDocs}

\* config.rs ProjectConfig::apply_overrides
apply_overrides(self, overrides) ==
    [code_extensions |->
        IF overrides.code_extensions # {} THEN overrides.code_extensions
        ELSE self.code_extensions,
     ignore_dirs |->
        IF overrides.ignore_dirs # {} THEN overrides.ignore_dirs
        ELSE self.ignore_dirs,
     ignore_files |->
        IF overrides.ignore_files # {} THEN overrides.ignore_files
        ELSE self.ignore_files,
     ignore_extensions |->
        IF overrides.ignore_extensions # {} THEN overrides.ignore_extensions
        ELSE self.ignore_extensions,
     max_file_size |->
        IF overrides.max_file_size > 0 THEN overrides.max_file_size
        ELSE self.max_file_size]

\* config.rs load_config
load_config(file) ==
    IF file.state = "parsed" THEN apply_overrides(DefaultConfig, file.doc)
    ELSE DefaultConfig

\* main.rs load_config: the merge written inline, over three of the fields.
main_load_config(file) ==
    IF file.state = "parsed"
    THEN [DefaultConfig EXCEPT
            !.code_extensions =
                IF file.doc.code_extensions # {} THEN file.doc.code_extensions ELSE @,
            !.ignore_dirs =
                IF file.doc.ignore_dirs # {} THEN file.doc.ignore_dirs ELSE @,
            !.max_file_size =
                IF file.doc.max_file_size > 0 THEN file.doc.max_file_size ELSE @]
    ELSE DefaultConfig

\* The two load_config of the repository: scanner.rs calls config.rs's,
\* main.rs calls its own.
Loaders == {"config.rs", "main.rs"}
LoadWith(loader, file) ==
    IF loader = "config.rs" THEN load_config(file) ELSE main_load_config(file)

\* --------------------------------------------------------------- filesystem
\* What a project directory may hold. For each entry: its path relative to
\* the project root, whether path.is_dir(), whether the walker yields Err for
\* it, the size path.metadata() gives while filtering (meta) and while
\* rendering (later), -1 standing for Err, and what reading it gives.
NoMeta == -1

Dir(p) ==
    [path |-> p, is_dir |-> TRUE, err |-> FALSE, meta |-> 0, later |-> 0,
     body |-> "none", lines |-> 0]
File(p, size, body, n) ==
    [path |-> p, is_dir |-> FALSE, err |-> FALSE, meta |-> size, later |-> size,
     body |-> body, lines |-> n]

Universe ==
    { Dir(<<S_src>>),
      File(<<S_src, S_main_dot_go>>, 50, "text", 2),
      Dir(<<S_node_modules>>),
      File(<<S_node_modules, S_x_dot_js>>, 51, "invalid", 0),
      File(<<S_image_dot_png>>, 300, "binary", 0),
      File(<<S_Dockerfile>>, 50, "text", 1),
      File(<<S_build>>, 0, "text", 0),
      File(<<S_src_dot_txt>>, 1048576, "binary", 0),
      File(<<S_big_dot_rs>>, 1048577, "text", 1),
      File(<<S_Cargo_dot_lock>>, 10, "text", 1),
      File(<<S_data_dot_bin>>, 10, "binary", 0),
      File(<<S__dot_gitignore>>, 51, "unopenable", 0),
      Dir(<<S_assets_dot_png>>),
      \* a dangling link: metadata fails whenever it is read
      [File(<<S_ghost_dot_rs>>, NoMeta, "unopenable", 0) EXCEPT !.later = NoMeta],
      \* a file that grows while the project is scanned
      [File(<<S_log_dot_txt>>, 50, "text", 1) EXCEPT !.later = 80],
      \* a file removed between filtering and rendering
      [File(<<S_gone_dot_txt>>, 7, "unopenable", 0) EXCEPT !.later = NoMeta],
      \* an entry the walker cannot read
      [Dir(<<S_denied>>) EXCEPT !.err = TRUE, !.is_dir = FALSE] }

Parent(p) == SubSeq(p, 1, Len(p) - 1)
EntryAt(p) == CHOOSE e \in Universe : e.path = p

\* ------------------------------------------------------------------- report
Line(t, n, u, p) == [t |-> t, n |-> n, u |-> u, p |-> p]
Plain(t) == Line(t, 0, "", <<>>)

\* scanner.rs write_header, then the tree section's title
HeaderLines(project, stamp) ==
    << Plain("box_top"), Line("project", project, "", <<>>), Plain("type"),
       Line("date", stamp, "", <<>>), Plain("box_bottom"),
       Plain("tree_title"), Plain("rule") >>

ContentTitleLines == << Plain("content_title"), Plain("rule") >>

\* One tree line: indent = depth - 1 (saturating), the entry's own name.
TreeLine(kind, rel) ==
    LET depth == Len(rel)
    IN  Line(kind, IF depth = 0 THEN 0 ELSE depth - 1, "", <<rel[Len(rel)]>>)

\* utils.rs is_binary: true when the file cannot be opened or read, or when
\* its first 1024 bytes hold a zero byte.
is_binary(e) == e.body \in {"binary", "unopenable"}

\* The body written without the binary check: every file is read as text.
BodyLinesUnsniffed(e) ==
    IF e.body = "text" THEN [i \in 1..e.lines |-> Line("line", i, "", e.path)]
    ELSE << Plain("utf8_error") >>

\* The body of one content section: the placeholder, the numbered lines, or
\* the decode-error line.
BodyLines(e) ==
    IF is_binary(e) THEN << Plain("binary_placeholder") >>
    ELSE IF e.body = "text" THEN [i \in 1..e.lines |-> Line("line", i, "", e.path)]
    ELSE << Plain("utf8_error") >>

\* One iteration of write_file_contents for the file at rel of size size.
SectionLines(rel, size) ==
    LET fs == format_size(size)
    IN  << Plain("section_top"), Line("path", 0, "", rel),
           Line("size", fs.n, fs.unit, <<>>), Plain("section_sep") >>
        \o BodyLines(EntryAt(rel))
        \o << Plain("section_bottom") >>

\* scanner.rs write_summary
SummaryLines(st, processed_count) ==
    LET fs == format_size(st.total_size)
    IN  << Plain("rule"), Plain("summary"), Line("processed", processed_count, "", <<>>),
           Line("skipped", st.skipped, "", <<>>), Line("total", fs.n, fs.unit, <<>>),
           Plain("rule") >>

\* ------------------------------------------------------------------- filter
file_name(e) == to_lowercase(e.path[Len(e.path)])
ext(e) == to_lowercase(extension(e.path[Len(e.path)]))

\* The size check with the boundary on the wrong side.
TooBigInclusive(size, cfg) == size >= cfg.max_file_size

\* scanner.rs:174, the size check
TooBig(size, cfg) == size > cfg.max_file_size

\* The decision chain with the ignore_files check moved before the
\* ignore_dirs check.
OutcomeFilesFirst(e, cfg) ==
    IF ~e.is_dir /\ file_name(e) \in cfg.ignore_files THEN "ignore_file"
    ELSE IF file_name(e) \in cfg.ignore_dirs THEN "ignore_dir"
    ELSE IF e.is_dir THEN "dir"
    ELSE IF ext(e) \in cfg.ignore_extensions THEN "ignore_ext"
    ELSE IF /\ ext(e) # S_empty
            /\ ext(e) \notin cfg.code_extensions
            /\ file_name(e) \notin cfg.code_extensions THEN "not_code"
    ELSE IF e.meta = NoMeta THEN "no_metadata"
    ELSE IF TooBig(e.meta, cfg) THEN "too_big"
    ELSE "accept"

\* The decision chain with the is_dir check moved after the file checks.
OutcomeDirsLast(e, cfg) ==
    IF file_name(e) \in cfg.ignore_dirs THEN "ignore_dir"
    ELSE IF file_name(e) \in cfg.ignore_files THEN "ignore_file"
    ELSE IF ext(e) \in cfg.ignore_extensions THEN "ignore_ext"
    ELSE IF /\ ext(e) # S_empty
            /\ ext(e) \notin cfg.code_extensions
            /\ file_name(e) \notin cfg.code_extensions THEN "not_code"
    ELSE IF e.is_dir THEN "dir"
    ELSE IF e.meta = NoMeta THEN "no_metadata"
    ELSE IF TooBig(e.meta, cfg) THEN "too_big"
    ELSE "accept"

\* The decision chain with the allowlist applied to files without extension
\* as well.
OutcomeAllowlistStrict(e, cfg) ==
    IF file_name(e) \in cfg.ignore_dirs THEN "ignore_dir"
    ELSE IF e.is_dir THEN "dir"
    ELSE IF file_name(e) \in cfg.ignore_files THEN "ignore_file"
    ELSE IF ext(e) \in cfg.ignore_extensions THEN "ignore_ext"
    ELSE IF /\ ext(e) \notin cfg.code_extensions
            /\ file_name(e) \notin cfg.code_extensions THEN "not_code"
    ELSE IF e.meta = NoMeta THEN "no_metadata"
    ELSE IF TooBig(e.meta, cfg) THEN "too_big"
    ELSE "accept"

\* The decision chain of collect_files for one yielded Ok(entry), in the
\* order of the code; the value names the branch taken.
Outcome(e, cfg) ==
    IF file_name(e) \in cfg.ignore_dirs THEN "ignore_dir"
    ELSE IF e.is_dir THEN "dir"
    ELSE IF file_name(e) \in cfg.ignore_files THEN "ignore_file"
    ELSE IF ext(e) \in cfg.ignore_extensions THEN "ignore_ext"
    ELSE IF /\ ext(e) # S_empty
            /\ ext(e) \notin cfg.code_extensions
            /\ file_name(e) \notin cfg.code_extensions THEN "not_code"
    ELSE IF e.meta = NoMeta THEN "no_metadata"
    ELSE IF TooBig(e.meta, cfg) THEN "too_big"
    ELSE "accept"

\* The counting with the ignore_dirs branch counted as well.
CountsSkippedAndPruned(outcome) ==
    outcome \in {"ignore_dir", "ignore_file", "ignore_ext", "not_code", "too_big"}

\* The counting with the unreadable-metadata branch counted as well.
CountsSkippedAndUnreadable(outcome) ==
    outcome \in {"ignore_file", "ignore_ext", "not_code", "no_metadata", "too_big"}

\* The branches that run stats.skipped += 1.
CountsSkipped(outcome) == outcome \in {"ignore_file", "ignore_ext", "not_code", "too_big"}

\* -------------------------------------------------------------------- state
VARIABLES
    is_single_project, \* a project marker lies directly under the input directory
    listing,         \* what fs::read_dir(input_dir) yields: "dir", "file" or "err" each
    disk,            \* the entries under a project directory (the same in every project)
    override,        \* the project's .scanner-config.json
    mainPc,          \* where main is: start, single, iterate, fallback, again, finished, error
    pos,             \* the next element of listing the for loop takes
    projects_found,  \* main's counter
    scans,           \* the process_project calls that returned: [target, result]
    pc,              \* where process_project is: idle, begin, walk, content, failed
    target,          \* the project being scanned: 0 the input directory, i the i-th listed entry
    config,          \* the ProjectConfig load_config returned
    cwd,             \* the directory the walker is iterating (<<>> the project root)
    yielded,         \* the entries the walker has yielded in this scan
    valid_files,     \* Vec<PathBuf> of accepted files
    stats,           \* ScanStats
    report,          \* the lines written to the output file
    cursor,          \* the index of write_file_contents' next file
    run,             \* 1, or 2 once the tool has been run again on the same input
    prev             \* run 2: the report run 1 wrote

vars == <<is_single_project, listing, disk, override, mainPc, pos, projects_found, scans,
          pc, target, config, cwd, yielded, valid_files, stats, report, cursor, run, prev>>

envVars == <<is_single_project, listing, disk, override>>
mainVars == <<pos, projects_found>>
scanVars == <<config, cwd, yielded, valid_files, stats, cursor>>
runVars == <<run, prev>>

NoStats == [total_size |-> 0, skipped |-> 0]
NoOverride == [state |-> "absent", doc |-> EmptyOverride]

\* The project trees of at most n entries drawn from U: a tree holds the
\* directory of every entry it holds.
Trees(U, n) ==
    {T \in SUBSET U :
        /\ Cardinality(T) <= n
        /\ \A e \in T : Len(e.path) > 1 =>
              \E d \in T : d.path = Parent(e.path) /\ d.is_dir /\ ~d.err}

\* The listings of the input directory, at most n entries of the given kinds.
Listings(kinds, n) == UNION {[1..m -> kinds] : m \in 0..n}

\* The state at the start of main, for an input directory among the given.
InitWith(singles, listings, trees, overrides) ==
    /\ is_single_project \in singles
    /\ listing \in listings
    /\ disk \in trees
    /\ override \in overrides
    /\ mainPc = "start"
    /\ pos = 1
    /\ projects_found = 0
    /\ scans = <<>>
    /\ pc = "idle"
    /\ target = 0
    /\ config = DefaultConfig
    /\ cwd = <<>>
    /\ yielded = {}
    /\ valid_files = <<>>
    /\ stats = NoStats
    /\ report = <<>>
    /\ cursor = 1
    /\ run = 1
    /\ prev = <<>>

\* main calls process_project(t): the scan's state is fresh.
Call(t) ==
    /\ pc' = "begin"
    /\ target' = t
    /\ cwd' = <<>>
    /\ yielded' = {}
    /\ valid_files' = <<>>
    /\ stats' = NoStats
    /\ report' = <<>>
    /\ cursor' = 1
    /\ UNCHANGED config

\* process_project's Err logged and dropped by main instead of returned.
FailAndContinue(written) ==
    /\ report' = report \o written
    /\ pc' = "idle"
    /\ mainPc' = IF mainPc = "iterate" THEN mainPc ELSE "finished"
    /\ scans' = Append(scans, [target |-> target, result |-> "failed"])

\* process_project removing what it wrote before it returns Err.
FailAndRollBack(written) ==
    /\ report' = << >>
    /\ pc' = "failed"
    /\ mainPc' = "error"
    /\ scans' = Append(scans, [target |-> target, result |-> "failed"])

\* process_project returns Err: main's `?` returns it, the run is over.
Fail(written) ==
    /\ report' = report \o written
    /\ pc' = "failed"
    /\ mainPc' = "error"
    /\ scans' = Append(scans, [target |-> target, result |-> "failed"])

\* process_project returns Ok and the loop forgets to count the project.
ReturnOkUncounted ==
    /\ pc' = "idle"
    /\ scans' = Append(scans, [target |-> target, result |-> "ok"])
    /\ projects_found' = projects_found
    /\ mainPc' = IF mainPc = "iterate" THEN mainPc ELSE "finished"

\* process_project returns Ok to its call site in main.
ReturnOk ==
    /\ pc' = "idle"
    /\ scans' = Append(scans, [target |-> target, result |-> "ok"])
    /\ IF mainPc = "iterate"
       THEN /\ projects_found' = projects_found + 1
            /\ mainPc' = mainPc
       ELSE /\ projects_found' = projects_found
            /\ mainPc' = "finished"

\* main.rs main, up to the first process_project call or the for loop.
MainStart ==
    /\ mainPc = "start"
    /\ UNCHANGED <<envVars, mainVars, scans, runVars>>
    /\ \E input_exists \in BOOLEAN, output_ok \in BOOLEAN, read_ok \in BOOLEAN :
         IF ~input_exists \/ ~output_ok
         THEN /\ mainPc' = "error"
              /\ UNCHANGED <<pc, target, scanVars, report>>
         ELSE IF is_single_project
         THEN /\ mainPc' = "single"
              /\ Call(0)
         ELSE IF ~read_ok
         THEN /\ mainPc' = "error"
              /\ UNCHANGED <<pc, target, scanVars, report>>
         ELSE /\ mainPc' = "iterate"
              /\ UNCHANGED <<pc, target, scanVars, report>>

\* One iteration of main's for loop, up to its process_project call.
MainNext ==
    /\ mainPc = "iterate"
    /\ pc = "idle"
    /\ pos <= Len(listing)
    /\ pos' = pos + 1
    /\ UNCHANGED <<envVars, projects_found, scans, runVars>>
    /\ IF listing[pos] = "err"
       THEN /\ mainPc' = "error"
            /\ UNCHANGED <<pc, target, scanVars, report>>
       ELSE IF listing[pos] = "dir"
       THEN /\ mainPc' = mainPc
            /\ Call(pos)
       ELSE /\ mainPc' = mainPc
            /\ UNCHANGED <<pc, target, scanVars, report>>

\* The for loop is over: the fallback scan of the input directory, or the end.
MainEnd ==
    /\ mainPc = "iterate"
    /\ pc = "idle"
    /\ pos > Len(listing)
    /\ UNCHANGED <<envVars, mainVars, scans, runVars>>
    /\ IF projects_found = 0
       THEN /\ mainPc' = "fallback"
            /\ Call(0)
       ELSE /\ mainPc' = "finished"
            /\ UNCHANGED <<pc, target, scanVars, report>>

\* process_project, from its start to the tree section's title: the config is
\* loaded, the report file created (truncated), the header written. A second
\* run is the same build, so it loads the same config.
ScanBegin ==
    /\ pc = "begin"
    /\ UNCHANGED <<envVars, mainVars, target, cwd, yielded, valid_files, stats, cursor,
                   runVars>>
    /\ \E loader \in Loaders, created \in BOOLEAN, k \in 0..Len(HeaderLines(target, run)) :
         /\ config' = LoadWith(loader, override)
         /\ run = 2 => config' = config
         /\ IF ~created
            THEN Fail(<<>>)
            ELSE IF k < Len(HeaderLines(target, run))
            THEN Fail(SubSeq(HeaderLines(target, run), 1, k))
            ELSE /\ report' = report \o HeaderLines(target, run)
                 /\ pc' = "walk"
                 /\ UNCHANGED <<mainPc, scans>>

IsPrefix(a, b) == Len(a) <= Len(b) /\ SubSeq(b, 1, Len(a)) = a

\* The directory the walker is in once it has yielded e.
CwdAfter(e) == IF e.is_dir /\ ~e.err THEN e.path ELSE Parent(e.path)

\* ignore::Walk as build_walker configures it, with no ignore file matching:
\* depth first, a directory before its children, siblings in any order, and
\* every yielded directory is descended into and left only once exhausted.
CanYield(e) ==
    /\ e \in disk \ yielded
    /\ IsPrefix(Parent(e.path), cwd)
    /\ \A x \in disk \ (yielded \cup {e}) :
          \/ IsPrefix(Parent(x.path), CwdAfter(e))
          \/ \E y \in disk \ (yielded \cup {e}) : y.path = Parent(x.path)

\* The new stats.skipped after an entry that took the branch `outcome`.
SkippedAfter(skipped, outcome) ==
    IF CountsSkipped(outcome) THEN skipped + 1 ELSE skipped

\* The tree line an entry that took the branch `outcome` gets, if any.
TreeLines(e, outcome) ==
    IF outcome = "dir" THEN << TreeLine("dir", e.path) >>
    ELSE IF outcome = "accept" THEN << TreeLine("file", e.path) >>
    ELSE << >>

\* valid_files after an entry that took the branch `outcome`.
PushAccepted(files, e, outcome) ==
    IF outcome = "accept" THEN Append(files, e.path) ELSE files

\* One iteration of collect_files' loop.
WalkStep ==
    /\ pc = "walk"
    /\ UNCHANGED <<envVars, mainVars, target, config, cursor, runVars>>
    /\ \E e \in disk :
         /\ CanYield(e)
         /\ yielded' = yielded \cup {e}
         /\ cwd' = CwdAfter(e)
         /\ IF e.err
            THEN UNCHANGED <<valid_files, stats, report, pc, mainPc, scans>>
            ELSE LET outcome == Outcome(e, config)
                     lines == TreeLines(e, outcome)
                 IN  /\ valid_files' = PushAccepted(valid_files, e, outcome)
                     /\ \E written \in BOOLEAN :
                          IF lines # <<>> /\ ~written
                          THEN /\ stats' = stats
                               /\ Fail(<<>>)
                          ELSE /\ stats' = [stats EXCEPT !.skipped = SkippedAfter(@, outcome)]
                               /\ report' = report \o lines
                               /\ UNCHANGED <<pc, mainPc, scans>>

\* collect_files returning before the walker is exhausted.
WalkEndEarly ==
    /\ pc = "walk"
    /\ valid_files' = sort(valid_files)
    /\ UNCHANGED <<envVars, mainVars, target, config, cwd, yielded, stats, cursor, runVars>>
    /\ \E k \in 0..Len(ContentTitleLines) :
         IF k < Len(ContentTitleLines)
         THEN Fail(SubSeq(ContentTitleLines, 1, k))
         ELSE /\ report' = report \o ContentTitleLines
              /\ pc' = "content"
              /\ UNCHANGED <<mainPc, scans>>

\* The walker is exhausted: collect_files returns, valid_files is sorted and
\* the content section's title written.
WalkEnd ==
    /\ pc = "walk"
    /\ yielded = disk
    /\ valid_files' = sort(valid_files)
    /\ UNCHANGED <<envVars, mainVars, target, config, cwd, yielded, stats, cursor, runVars>>
    /\ \E k \in 0..Len(ContentTitleLines) :
         IF k < Len(ContentTitleLines)
         THEN Fail(SubSeq(ContentTitleLines, 1, k))
         ELSE /\ report' = report \o ContentTitleLines
              /\ pc' = "content"
              /\ UNCHANGED <<mainPc, scans>>

\* The total assigned instead of accumulated.
TotalOverwritten(total, size) == size

\* The size write_file_contents adds for a file whose metadata gave `size`.
TotalAfter(total, size) == total + size

\* One iteration of write_file_contents' loop.
RenderFile ==
    /\ pc = "content"
    /\ cursor <= Len(valid_files)
    /\ UNCHANGED <<envVars, mainVars, target, config, cwd, yielded, valid_files, runVars>>
    /\ LET path == valid_files[cursor]
           size == EntryAt(path).later
       IN  IF size = NoMeta
           THEN /\ Fail(<<>>)
                /\ UNCHANGED <<stats, cursor>>
           ELSE \E k \in 0..Len(SectionLines(path, size)) :
                  IF k < Len(SectionLines(path, size))
                  THEN /\ Fail(SubSeq(SectionLines(path, size), 1, k))
                       /\ UNCHANGED <<stats, cursor>>
                  ELSE /\ report' = report \o SectionLines(path, size)
                       /\ stats' = [stats EXCEPT !.total_size = TotalAfter(@, size)]
                       /\ cursor' = cursor + 1
                       /\ UNCHANGED <<pc, mainPc, scans>>

\* write_file_contents returns; write_summary; process_project returns Ok.
Summary ==
    /\ pc = "content"
    /\ cursor > Len(valid_files)
    /\ UNCHANGED <<envVars, pos, target, scanVars, runVars>>
    /\ LET lines == SummaryLines(stats, Len(valid_files))
       IN  \E k \in 0..Len(lines) :
             IF k < Len(lines)
             THEN /\ Fail(SubSeq(lines, 1, k))
                  /\ UNCHANGED projects_found
             ELSE /\ report' = report \o lines
                  /\ ReturnOk

\* The tool is run a second time on the same, unchanged single project.
RunAgain ==
    /\ mainPc = "finished"
    /\ run = 1
    /\ Len(scans) = 1
    /\ run' = 2
    /\ prev' = report
    /\ mainPc' = "again"
    /\ Call(target)
    /\ UNCHANGED <<envVars, mainVars, scans>>

Next ==
    \/ MainStart
    \/ MainNext
    \/ MainEnd
    \/ ScanBegin
    \/ WalkStep
    \/ WalkEnd
    \/ RenderFile
    \/ Summary

NextAgain == Next \/ RunAgain

\* The tree of the scenario: src/main.go (50 bytes), node_modules/x.js, image.png.
ScenarioTree ==
    {e \in Universe : e.path \in {<<S_src>>, <<S_src, S_main_dot_go>>, <<S_node_modules>>,
                                  <<S_node_modules, S_x_dot_js>>, <<S_image_dot_png>>}}

\* Spec: one project directory under the input directory, holding any tree of
\* at most MaxEntries entries (or the scenario's tree), with any override file.
\* (SpecMain covers the input directory that is itself a project.)
Init ==
    InitWith({FALSE}, {<<"dir">>}, Trees(Universe, MaxEntries) \cup {ScenarioTree},
             OverrideFiles)

Spec == Init /\ [][Next]_vars

\* SpecMain: any input directory of at most MaxListing entries, each project
\* holding a small tree and no override file.
MainUniverse ==
    {e \in Universe : e.path \in {<<S_Dockerfile>>, <<S_image_dot_png>>, <<S_gone_dot_txt>>}}

InitMain ==
    InitWith(BOOLEAN, Listings({"dir", "file", "err"}, MaxListing),
             Trees(MainUniverse, MaxEntries), {NoOverride})

SpecMain == InitMain /\ [][Next]_vars

\* SpecDefault: Spec's run over a project without override file, scanned
\* under the default rules.
InitLive ==
    InitWith({FALSE}, {<<"dir">>}, Trees(Universe, MaxEntries) \cup {ScenarioTree},
             {NoOverride})

SpecDefault == InitLive /\ [][Next]_vars

\* SpecLive: SpecDefault with the fairness of sequential code.
SpecLive == SpecDefault /\ WF_vars(Next)

\* SpecDirs: one project whose tree holds directories named like files the
\* rules reject (a directory's own size is that of its inode block).
DirUniverse ==
    {e \in Universe : e.path \in {<<S_src>>, <<S_src, S_main_dot_go>>, <<S_node_modules>>,
                                  <<S_Dockerfile>>}}
    \cup {[Dir(<<n>>) EXCEPT !.meta = 4096, !.later = 4096] :
              n \in {S_assets_dot_png, S_Thumbs_dot_db, S_notes_dot_xyz}}
    \cup {[Dir(<<S_src, S_Thumbs_dot_db>>) EXCEPT !.meta = 4096, !.later = 4096]}

InitDirs ==
    InitWith({FALSE}, {<<"dir">>}, Trees(DirUniverse, MaxEntries),
             {NoOverride, [state |-> "parsed",
                           doc |-> [EmptyOverride EXCEPT !.max_file_size = 50]]})

SpecDirs == InitDirs /\ [][Next]_vars

\* SpecOrder: one project scanned, then scanned again by a second run of the
\* tool; its tree has at most MaxOrderEntries entries, none of which changes
\* while or between the scans.
OrderUniverse ==
    {e \in Universe : e.path \in {<<S_src>>, <<S_src, S_main_dot_go>>, <<S_src_dot_txt>>,
                                  <<S_Dockerfile>>, <<S_image_dot_png>>,
                                  <<S_node_modules>>, <<S_node_modules, S_x_dot_js>>}}

InitOrder ==
    InitWith(BOOLEAN, {<<"dir">>}, Trees(OrderUniverse, MaxOrderEntries),
             {NoOverride, [state |-> "parsed",
                           doc |-> [EmptyOverride EXCEPT !.max_file_size = 50]]})

SpecOrder == InitOrder /\ [][NextAgain]_vars

\* --------------------------------------------------------------- properties
Range(s) == {s[i] : i \in DOMAIN s}
Count(l, s) == Cardinality({i \in DOMAIN s : s[i] = l})
LinesOf(r, kinds) == SelectSeq(r, LAMBDA l : l.t \in kinds)
ContentPaths(r) == [i \in DOMAIN LinesOf(r, {"path"}) |-> LinesOf(r, {"path"})[i].p]

\* The sum of the field (meta or later) over the entries of S.
RECURSIVE SumOf(_, _)
SumOf(S, field) ==
    IF S = {} THEN 0
    ELSE LET e == CHOOSE x \in S : TRUE IN e[field] + SumOf(S \ {e}, field)

\* The last process_project call returned Ok and its report is complete.
ScanOk == pc = "idle" /\ scans # <<>> /\ scans[Len(scans)].result = "ok"

\* The terms of the Filter's contract: the lower-cased basename and extension.
BaseName(e) == to_lowercase(e.path[Len(e.path)])
ExtOf(e) == to_lowercase(extension(e.path[Len(e.path)]))

\* The entry lies beneath a directory whose lower-cased name is in ignoreDirs.
Beneath(e, cfg) ==
    \E i \in 1..(Len(e.path) - 1) : to_lowercase(e.path[i]) \in cfg.ignore_dirs

\* The file passes the name and extension checks (steps 2 to 7).
PassesNameChecks(e, cfg) ==
    /\ ~e.err /\ ~e.is_dir
    /\ BaseName(e) \notin cfg.ignore_dirs
    /\ BaseName(e) \notin cfg.ignore_files
    /\ ExtOf(e) \notin cfg.ignore_extensions
    /\ ~(/\ ExtOf(e) # <<>>
         /\ ExtOf(e) \notin cfg.code_extensions
         /\ BaseName(e) \notin cfg.code_extensions)

\* The Filter accepts the entry (step 9).
FilterAccepts(e, cfg) ==
    PassesNameChecks(e, cfg) /\ e.meta # NoMeta /\ e.meta <= cfg.max_file_size

\* The file is rejected by the ignoreFiles, ignoreExtensions, codeExtensions or
\* size check.
RejectedAndCounted(e, cfg) ==
    /\ ~e.err /\ ~e.is_dir
    /\ BaseName(e) \notin cfg.ignore_dirs
    /\ \/ BaseName(e) \in cfg.ignore_files
       \/ ExtOf(e) \in cfg.ignore_extensions
       \/ ExtOf(e) # <<>> /\ ExtOf(e) \notin cfg.code_extensions
                          /\ BaseName(e) \notin cfg.code_extensions
       \/ e.meta # NoMeta /\ e.meta > cfg.max_file_size

\* The walker yields e in this step.
Yields(e) == pc = "walk" /\ e \notin yielded /\ yielded' = yielded \cup {e}

\* C1: with the default RuleSet, an entry beneath a directory whose lower-cased
\* name is in ignoreDirs gets no tree line, is not added to the file list and
\* is not counted as skipped; for the scenario tree the summary is processed 1,
\* skipped 1, total 50 bytes and the tree lists only src/ and main.go.
C1_PrunedWithIgnoredDir ==
    config = DefaultConfig =>
      /\ \A e \in yielded : Beneath(e, config) /\ ~e.err =>
            /\ e.path \notin Range(valid_files)
            /\ TreeLine("dir", e.path) \notin Range(report)
            /\ TreeLine("file", e.path) \notin Range(report)
      /\ stats.skipped <= Cardinality({e \in yielded : ~Beneath(e, config)})
      /\ ScanOk /\ disk = ScenarioTree =>
            /\ Line("processed", 1, "", <<>>) \in Range(report)
            /\ Line("skipped", 1, "", <<>>) \in Range(report)
            /\ Line("total", 50, "B", <<>>) \in Range(report)
            /\ Range(LinesOf(report, {"dir", "file"}))
                  = {TreeLine("dir", <<S_src>>), TreeLine("file", <<S_src, S_main_dot_go>>)}

\* The RuleSet the merge rule gives for an override file.
MergedRuleSet(file) ==
    IF file.state # "parsed" THEN DefaultConfig
    ELSE [f \in DOMAIN DefaultConfig |->
            IF f = "max_file_size"
            THEN IF file.doc[f] > 0 THEN file.doc[f] ELSE DefaultConfig[f]
            ELSE IF file.doc[f] # {} THEN file.doc[f] ELSE DefaultConfig[f]]

\* C2: the loaded RuleSet is the default with each of the five fields replaced
\* by the override's exactly when the file parses and the field is non-empty.
C2_LoadMergesEachField ==
    pc \in {"walk", "content"} => config = MergedRuleSet(override)

\* C3 as stated: when one project's scan fails, every other project listed
\* under the input directory is still scanned and gets its report.
C3_OtherProjectsStillScanned ==
    \A i \in 1..Len(scans) :
       (mainPc \in {"finished", "error"} /\ scans[i].result = "failed") =>
          \A d \in 1..Len(listing) :
             (~is_single_project /\ listing[d] = "dir" /\ d # scans[i].target) =>
                \E j \in 1..Len(scans) : scans[j] = [target |-> d, result |-> "ok"]

\* C3, amended: a fatal failure of one project's scan ends the whole run: the
\* failed scan is the run's last, main has returned the error, and no project
\* listed after the failed one is ever scanned.
C3_FailureEndsRun ==
    \A i \in 1..Len(scans) :
       scans[i].result = "failed" =>
          /\ i = Len(scans)
          /\ mainPc = "error"
          /\ pc = "failed"
          /\ \A j \in 1..Len(scans) : scans[i].target > 0 => scans[j].target <= scans[i].target

C3_Witness ==
    /\ mainPc = "error"
    /\ scans # <<>>
    /\ scans[Len(scans)].result = "failed"
    /\ scans[Len(scans)].target > 0
    /\ \E d \in 1..Len(listing) : d > scans[Len(scans)].target /\ listing[d] = "dir"

AcceptedPaths == {e.path : e \in {x \in yielded : FilterAccepts(x, config)}}

Ascending(ps, less(_, _)) ==
    \A i \in DOMAIN ps, j \in DOMAIN ps : i < j => less(ps[i], ps[j])

\* The content sections written so far are those of the first accepted files
\* of valid_files, in its order, each once; all of them once the scan is over.
RendersFileList ==
    LET ps == ContentPaths(report)
    IN  /\ Len(ps) <= Len(valid_files)
        /\ ps = SubSeq(valid_files, 1, Len(ps))
        /\ Range(ps) \subseteq AcceptedPaths
        /\ ScanOk => Range(ps) = AcceptedPaths

\* C5 as stated: the content sections are in ascending byte order of the
\* files' full path strings.
C5_ContentInStringOrder ==
    (pc = "content" \/ ScanOk) =>
       RendersFileList /\ Ascending(ContentPaths(report), PathLessAsString)

\* C5, amended: the content sections are the accepted files in ascending
\* component-wise path order (component by component, each by its bytes),
\* whatever the traversal order, neither re-ordered nor deduplicated.
C5_ContentInComponentOrder ==
    (pc = "content" \/ ScanOk) =>
       RendersFileList /\ Ascending(ContentPaths(report), PathLessBytes)

\* Two files rendered in component order where the string order is the
\* opposite, the walker having yielded them in the string order.
C5_Witness ==
    /\ ScanOk
    /\ Len(ContentPaths(report)) = 2
    /\ PathLessAsString(ContentPaths(report)[2], ContentPaths(report)[1])
    /\ LinesOf(report, {"file"})[1] = TreeLine("file", ContentPaths(report)[2])

WithoutDate(r) == SelectSeq(r, LAMBDA l : l.t # "date")
SameLines(a, b) ==
    /\ Len(a) = Len(b)
    /\ \A l \in Range(a) \cup Range(b) : Count(l, a) = Count(l, b)

\* C6 as stated: the second run's report is the first's, the date line aside.
C6_ReportsIdentical ==
    (run = 2 /\ ScanOk) => WithoutDate(report) = WithoutDate(prev)

\* C6, amended: the second run's report has the first's header (the date
\* aside), content section and summary, line for line, whatever the traversal
\* orders; its tree section has the same lines in the second traversal's
\* order.
C6_SameContentSameTreeLines ==
    (run = 2 /\ ScanOk) =>
       /\ LET rest(r) == SelectSeq(r, LAMBDA l : l.t \notin {"date", "dir", "file"})
          IN  rest(report) = rest(prev)
       /\ SameLines(LinesOf(report, {"dir", "file"}), LinesOf(prev, {"dir", "file"}))
       /\ Len(report) = Len(prev)

C6_Witness ==
    /\ run = 2
    /\ ScanOk
    /\ Len(valid_files) >= 2
    /\ LinesOf(report, {"dir", "file"}) # LinesOf(prev, {"dir", "file"})

\* C7: every member of the four string sets of the loaded RuleSet is
\* lower-cased.
C7_SetsLowerCased ==
    pc \in {"walk", "content"} =>
       \A s \in config.code_extensions \cup config.ignore_dirs
                \cup config.ignore_files \cup config.ignore_extensions :
          s = to_lowercase(s)

\* An entry named in ignoreDirs changes nothing: not the file list, not the
\* counters, not the report.
IgnoredDirNameIsSilent(e) ==
    BaseName(e) \in config.ignore_dirs =>
       valid_files' = valid_files /\ stats' = stats /\ report' = report /\ pc' = pc

\* A file without extension, allowlisted by its basename.
AllowlistedByName(e) ==
    /\ ~e.is_dir
    /\ ExtOf(e) = <<>>
    /\ BaseName(e) \in config.code_extensions
    /\ BaseName(e) \notin config.ignore_dirs \cup config.ignore_files
    /\ e.meta # NoMeta /\ e.meta <= config.max_file_size

IsAccepted(e) == valid_files' = Append(valid_files, e.path) /\ stats' = stats

\* C8 as stated: an entry named in ignoreDirs is rejected silently before any
\* other check, and an extensionless file whose basename is in codeExtensions
\* (not in ignoreDirs or ignoreFiles, within the size limit) is accepted.
C8_Precedence ==
    [][\A e \in Universe : (Yields(e) /\ ~e.err) =>
          /\ IgnoredDirNameIsSilent(e)
          /\ AllowlistedByName(e) => IsAccepted(e)]_vars

\* C8, amended: the same, the extensionless file being accepted provided the
\* empty extension is not itself a member of ignoreExtensions.
C8_PrecedenceUnlessEmptyExtIgnored ==
    [][\A e \in Universe : (Yields(e) /\ ~e.err) =>
          /\ IgnoredDirNameIsSilent(e)
          /\ (AllowlistedByName(e) /\ <<>> \notin config.ignore_extensions) => IsAccepted(e)]_vars

C8_Witness ==
    /\ pc = "walk"
    /\ \E e \in yielded :
          /\ ~e.err
          /\ BaseName(e) \in config.ignore_dirs \cap config.ignore_files
          /\ e.path \notin Range(valid_files)
    /\ \E e \in yielded :
          /\ ExtOf(e) = <<>> /\ BaseName(e) \in config.code_extensions
          /\ e.path \in Range(valid_files)
    /\ stats.skipped = 0

\* C9: a file that passes the name and extension checks is accepted when its
\* size is at most max_file_size and otherwise rejected with skipped
\* incremented by exactly one.
C9_SizeBoundary ==
    [][\A e \in Universe :
          (Yields(e) /\ PassesNameChecks(e, config) /\ e.meta # NoMeta) =>
             IF e.meta <= config.max_file_size
             THEN valid_files' = Append(valid_files, e.path) /\ stats' = stats
             ELSE /\ valid_files' = valid_files
                  /\ stats' = [stats EXCEPT !.skipped = @ + 1]]_vars

C9_Witness ==
    /\ pc = "walk"
    /\ stats.skipped = 1
    /\ \E a \in yielded, b \in yielded :
          /\ PassesNameChecks(a, config) /\ a.meta = config.max_file_size
          /\ a.path \in Range(valid_files)
          /\ PassesNameChecks(b, config) /\ b.meta = config.max_file_size + 1
          /\ b.path \notin Range(valid_files)

\* In a completed scan the summary's processed count, the file list, the
\* tree's file lines and the content sections all number the accepted files,
\* each accepted path once in each.
CountsAgree ==
    LET acc == {e \in yielded : FilterAccepts(e, config)}
    IN  /\ Line("processed", Cardinality(acc), "", <<>>) \in Range(LinesOf(report, {"processed"}))
        /\ Len(valid_files) = Cardinality(acc)
        /\ Len(LinesOf(report, {"file"})) = Cardinality(acc)
        /\ Len(LinesOf(report, {"path"})) = Cardinality(acc)
        /\ \A e \in acc :
              /\ Count(TreeLine("file", e.path), report) = 1
              /\ Count(Line("path", 0, "", e.path), report) = 1

\* C10 as stated: the counts agree and total_size is the sum, over the
\* accepted files, of the size the Filter saw.
C10_TotalIsFilterSizes ==
    ScanOk =>
       /\ CountsAgree
       /\ stats.total_size = SumOf({e \in yielded : FilterAccepts(e, config)}, "meta")

\* C10, amended: the counts agree and total_size is the sum, over the accepted
\* files, of the size read again when the file's content section is written
\* (the Filter's size when the file has not changed in between).
C10_TotalIsRenderSizes ==
    ScanOk =>
       /\ CountsAgree
       /\ stats.total_size = SumOf({e \in yielded : FilterAccepts(e, config)}, "later")

C10_Witness ==
    /\ ScanOk
    /\ Len(valid_files) = 2
    /\ \E e \in yielded : FilterAccepts(e, config) /\ e.later # e.meta
    /\ stats.total_size > 0

\* The binary predicate's verdict on an entry: a zero byte in its first 1024
\* bytes, or a file that cannot be opened for sniffing.
SniffsBinary(e) == e.body = "binary" \/ e.body = "unopenable"

\* The content section of a binary file of the given size: the bordered
\* header, one placeholder line, the closing border.
BinarySection(path, size) ==
    << Plain("section_top"), Line("path", 0, "", path),
       Line("size", format_size(size).n, format_size(size).unit, <<>>),
       Plain("section_sep"), Plain("binary_placeholder"), Plain("section_bottom") >>

\* C11: an accepted file the binary predicate classifies as binary is rendered
\* as its bordered header plus one placeholder line and no numbered line, its
\* size is added to total_size, and the summary counts it as processed.
C11_BinaryPlaceholder ==
    [][/\ (pc = "content" /\ cursor' = cursor + 1) =>
             \A e \in disk : (e.path = valid_files[cursor] /\ SniffsBinary(e)) =>
                /\ report' = report \o BinarySection(e.path, e.later)
                /\ stats'.total_size = stats.total_size + e.later
                /\ pc' = "content"
       /\ (pc = "content" /\ pc' = "idle") =>
             /\ Line("processed", Len(valid_files), "", <<>>) \in Range(report')
             /\ \A e \in disk : (SniffsBinary(e) /\ e.path \in Range(valid_files)) =>
                   /\ Count(Line("path", 0, "", e.path), report') = 1
                   /\ \A i \in 0..e.lines : Line("line", i, "", e.path) \notin Range(report')
                   /\ stats.total_size >= e.later]_vars

\* A completed scan that rendered a file with a zero byte and a file that
\* could not be opened for sniffing.
C11_Witness ==
    /\ ScanOk
    /\ \E a \in yielded, b \in yielded :
          /\ a.body = "binary" /\ a.path \in Range(valid_files)
          /\ b.body = "unopenable" /\ b.path \in Range(valid_files)
    /\ Count(Plain("binary_placeholder"), report) = 2
    /\ stats.total_size > 0

\* The file write_file_contents is about to render.
NextFile == CHOOSE e \in disk : e.path = valid_files[cursor]
Rendering == pc = "content" /\ cursor <= Len(valid_files)

\* The scan can go on past the file it is about to render.
CanRenderOn == ENABLED (RenderFile /\ pc' = "content" /\ cursor' = cursor + 1)

\* A yielded entry leaves the traversal running and the collector untouched.
DroppedSilently ==
    pc' = "walk" /\ valid_files' = valid_files /\ stats' = stats /\ report' = report

\* C12 as stated: no recoverable condition aborts the scan in any phase: a
\* walker error and a file with unreadable metadata are dropped silently
\* during traversal, and a file whose metadata cannot be read, that cannot be
\* decoded or cannot be opened while rendering does not stop the rendering.
C12_RecoverableNeverAborts ==
    [][((Rendering /\ (NextFile.later = NoMeta \/ NextFile.body \in {"invalid", "unopenable"}))
            => CanRenderOn)
       /\ (\A e \in Universe : (Yields(e) /\ (e.err \/ (~e.is_dir /\ e.meta = NoMeta)))
                                   => DroppedSilently)]_vars

\* C12, amended: a walker error, a file that cannot be decoded and a file that
\* cannot be opened for sniffing never abort the scan; a file whose metadata
\* cannot be read when the Filter's size check is reached (it passed the name
\* and extension checks) is dropped silently; a file whose metadata cannot be
\* read when its content section is due aborts the scan there, nothing more
\* being written.
C12_RecoverableExceptRenderMetadata ==
    [][((Rendering /\ NextFile.later # NoMeta /\ NextFile.body \in {"invalid", "unopenable"})
            => CanRenderOn)
       /\ (\A e \in Universe :
               (Yields(e) /\ (e.err \/ (PassesNameChecks(e, config) /\ e.meta = NoMeta)))
                  => DroppedSilently)
       /\ ((Rendering /\ NextFile.later = NoMeta)
               => (pc' = "failed" /\ report' = report /\ stats' = stats))]_vars

\* A completed scan whose traversal met a file without metadata and whose
\* rendering met a file that could not be decoded or opened.
C12_Witness ==
    /\ ScanOk
    /\ \E e \in yielded : PassesNameChecks(e, config) /\ e.meta = NoMeta
    /\ \E e \in yielded : e.body \in {"invalid", "unopenable"} /\ e.path \in Range(valid_files)
    /\ stats.skipped = 0

\* The lines the scan is about to write in its present phase: the header, one
\* tree line at most, the content title, one content section, the summary.
DueLines ==
    IF pc = "begin" THEN HeaderLines(target, run)
    ELSE IF pc = "walk" /\ yielded # disk THEN << >>
    ELSE IF pc = "walk" THEN ContentTitleLines
    ELSE IF Rendering /\ NextFile.later = NoMeta THEN << >>
    ELSE IF Rendering THEN SectionLines(NextFile.path, NextFile.later)
    ELSE SummaryLines(stats, Len(valid_files))

\* C13: a write failure at any point ends the scan with an error: the report
\* keeps what was written before the failed write and gets nothing after it,
\* the report only ever grows by appending, and a failed scan is neither
\* retried nor rolled back.
C13_WriteFailureIsFinal ==
    [][/\ pc' # "begin" => IsPrefix(report, report')
       /\ (pc # "failed" /\ pc' = "failed") =>
             /\ \E k \in 0..Len(DueLines) :
                   /\ k = Len(DueLines) => DueLines = << >>
                   /\ report' = report \o SubSeq(DueLines, 1, k)
             /\ scans' = Append(scans, [target |-> target, result |-> "failed"])
             /\ mainPc' = "error"
       /\ pc = "failed" => (pc' = "failed" /\ report' = report)
       /\ \A i \in 1..Len(scans') : \A j \in 1..Len(scans') :
             (scans'[i].target = scans'[j].target /\ scans'[i].result = "failed") => i = j]_vars

\* A scan that failed on a write in the content section, the header, a tree
\* line and part of the section being kept.
C13_Witness ==
    /\ pc = "failed"
    /\ mainPc = "error"
    /\ Plain("box_top") \in Range(report)
    /\ Len(LinesOf(report, {"file"})) = 1
    /\ report[Len(report)].t = "section_sep"
    /\ Plain("summary") \notin Range(report)

\* The projects scanned so far, in the order of their scans.
Targets == [i \in 1..Len(scans) |-> scans[i].target]

\* The immediate subdirectories among the first n entries of the listing.
RECURSIVE SubDirs(_)
SubDirs(n) ==
    IF n = 0 THEN << >>
    ELSE IF listing[n] = "dir" THEN Append(SubDirs(n - 1), n)
    ELSE SubDirs(n - 1)

\* The scans the orchestration calls for: the input directory alone when it
\* is a project root or has no subdirectory, else its subdirectories.
ProjectsToScan ==
    IF is_single_project \/ SubDirs(Len(listing)) = << >> THEN << 0 >>
    ELSE SubDirs(Len(listing))

\* main has returned, and not before it came to choose what to scan (the
\* input directory exists, the output directory and the listing were got).
RunOver == mainPc \in {"finished", "error"} /\ ~(mainPc = "error" /\ scans = << >> /\ pos = 1)

\* C14 as stated: in every case the run scans the input directory once when
\* it is a project root, else each immediate subdirectory once and not the
\* input directory, or the input directory once when it has no subdirectory.
C14_OneScanPerProject ==
    RunOver => Targets = ProjectsToScan

\* C14, amended: a run that ends without a fatal error has scanned exactly
\* those projects, once each, every scan succeeding; a run ended by a fatal
\* error (a failed scan, an unreadable listing entry) has scanned, once each
\* and in listing order, only the projects that came before the error.
C14_OneScanPerProjectUntilError ==
    /\ mainPc = "finished" =>
          /\ Targets = ProjectsToScan
          /\ \A i \in 1..Len(scans) : scans[i].result = "ok"
    /\ (mainPc = "error" /\ RunOver) =>
          /\ IsPrefix(Targets, ProjectsToScan)
          /\ \A i \in 1..Len(scans) : scans[i].result = "failed" <=> (pc = "failed" /\ i = Len(scans))
          /\ Targets = ProjectsToScan =>
                (pc = "failed" \/ \E d \in 1..Len(listing) : listing[d] = "err")

\* A finished run over two subdirectories, and one over a directory that
\* holds no subdirectory.
C14_Witness ==
    /\ mainPc = "finished"
    /\ ~is_single_project
    /\ \/ Targets = << 1, 2 >>
       \/ (Targets = << 0 >> /\ Len(listing) = 2)

\* The section of the report a line belongs to: 1 header and tree title,
\* 2 tree, 3 content title, 4 content sections, 5 summary (0: a rule line,
\* which every title has).
SectionOf(l) ==
    IF l.t \in {"box_top", "project", "type", "date", "box_bottom", "tree_title"} THEN 1
    ELSE IF l.t \in {"dir", "file"} THEN 2
    ELSE IF l.t = "content_title" THEN 3
    ELSE IF l.t \in {"section_top", "path", "size", "section_sep", "binary_placeholder",
                     "line", "utf8_error", "section_bottom"} THEN 4
    ELSE IF l.t \in {"summary", "processed", "skipped", "total"} THEN 5
    ELSE 0

\* The phase of process_project: Init, Traverse+Filter+Collect, RenderContent
\* (entered by the sort), and the end, Done or failed.
PhaseOf(p) == IF p = "begin" THEN 1 ELSE IF p = "walk" THEN 2 ELSE IF p = "content" THEN 3 ELSE 4

\* The report's sections are in order, content is written only once the
\* traversal is over and the file list sorted, and the summary comes once,
\* after a content section for every accepted file.
LinearReport ==
    LET r == SelectSeq(report, LAMBDA l : SectionOf(l) # 0)
    IN  /\ \A i \in DOMAIN r, j \in DOMAIN r : i < j => SectionOf(r[i]) <= SectionOf(r[j])
        /\ (\E i \in DOMAIN r : SectionOf(r[i]) = 2) => Count(Plain("tree_title"), report) = 1
        /\ (\E i \in DOMAIN r : SectionOf(r[i]) >= 3) =>
              /\ yielded = disk
              /\ Ascending(valid_files, PathLessBytes)
              /\ pc \in {"content", "idle", "failed"}
        /\ Count(Plain("summary"), report) <= 1
        /\ Plain("summary") \in Range(report) =>
              /\ cursor = Len(valid_files) + 1
              /\ ContentPaths(report) = valid_files
              /\ Count(Plain("section_bottom"), report) = Cardinality(AcceptedPaths)
        /\ ScanOk => Count(Line("processed", Len(valid_files), "", <<>>), report) = 1

\* C15: a scan is one linear pass: its phases only advance, the header
\* precedes the tree, no content is written before the traversal is over and
\* the file list sorted, the summary comes once and after every content
\* section, and a scan that has begun ends, done or failed.
C15_LinearPass ==
    /\ []LinearReport
    /\ [][pc' # "begin" => PhaseOf(pc') >= PhaseOf(pc)]_vars
    /\ (pc = "begin") ~> (pc \in {"idle", "failed"})

\* A scan that is done after a traversal of two accepted files yielded out
\* of order.
C15_Witness ==
    /\ ScanOk
    /\ Len(valid_files) = 2
    /\ LinesOf(report, {"file"})[1] = TreeLine("file", valid_files[2])
    /\ Plain("summary") \in Range(report)

\* The tree line of a directory: its own name, marked as a directory, one
\* level of indentation for each component above it.
DirLine(e) == Line("dir", Len(e.path) - 1, "", <<e.path[Len(e.path)]>>)

\* A directory the ignoreDirs rule does not name.
DescendedDir(e) == e.is_dir /\ ~e.err /\ BaseName(e) \notin config.ignore_dirs

\* C16: a directory whose lower-cased basename is not in ignoreDirs is
\* classified Descend whatever else the rules say of its name, extension or
\* size: the step writes its one tree line (or the scan ends on that write),
\* leaving the file list and the counters alone, and a completed report
\* holds that line exactly once.
C16_DirectoryAlwaysDescends ==
    [][(\A e \in disk : (Yields(e) /\ DescendedDir(e)) =>
            /\ valid_files' = valid_files
            /\ stats' = stats
            /\ \/ report' = report \o << DirLine(e) >> /\ pc' = "walk"
               \/ report' = report /\ pc' = "failed")
       /\ ((pc = "content" /\ pc' = "idle") =>
              \A e \in disk : DescendedDir(e) =>
                 /\ Count(DirLine(e), report') = 1
                 /\ e.path \notin Range(valid_files)
                 /\ Line("path", 0, "", e.path) \notin Range(report'))]_vars

\* A completed scan of a tree with a directory named in ignoreFiles and a
\* directory with an ignored extension, each larger than max_file_size, both
\* listed in the tree and neither counted.
C16_Witness ==
    /\ ScanOk
    /\ stats.skipped = 0
    /\ valid_files = << >>
    /\ \E a \in yielded, b \in yielded :
          /\ DescendedDir(a) /\ DescendedDir(b)
          /\ a.meta > config.max_file_size /\ b.meta > config.max_file_size
          /\ BaseName(a) \in config.ignore_files
          /\ ExtOf(b) \in config.ignore_extensions
          /\ Count(DirLine(a), report) = 1 /\ Count(DirLine(b), report) = 1

\* A file without extension that the ignoreDirs and ignoreFiles rules do not
\* name and whose size is within the limit.
PlainFileWithinLimit(e) ==
    /\ ~e.err /\ ~e.is_dir
    /\ ExtOf(e) = << >>
    /\ BaseName(e) \notin config.ignore_dirs
    /\ BaseName(e) \notin config.ignore_files
    /\ e.meta # NoMeta /\ e.meta <= config.max_file_size

\* C17: the codeExtensions allowlist never rejects a file without extension:
\* such a file, named in neither ignoreDirs nor ignoreFiles and within the
\* size limit, is accepted whether or not its basename is in codeExtensions,
\* unless the empty string is in ignoreExtensions, and then it is rejected
\* and counted.
C17_NoExtensionPassesAllowlist ==
    [][\A e \in Universe : (Yields(e) /\ PlainFileWithinLimit(e)) =>
          IF << >> \in config.ignore_extensions
          THEN /\ valid_files' = valid_files
               /\ stats' = [stats EXCEPT !.skipped = @ + 1]
          ELSE /\ valid_files' = Append(valid_files, e.path)
               /\ stats' = stats]_vars

\* A dotfile whose name is no member of codeExtensions, accepted, and
\* another file without extension accepted beside it.
C17_Witness ==
    /\ pc = "content"
    /\ Len(valid_files) = 2
    /\ \A p \in Range(valid_files) : extension(p[Len(p)]) = << >>
    /\ \E p \in Range(valid_files) :
          /\ p[Len(p)][1] = DOT
          /\ to_lowercase(p[Len(p)]) \notin config.code_extensions

====
